---------------------------- MODULE Spec2Model ----------------------------
(***************************************************************************)
(* The Cortex Analyst chat application of src/Ai_ML/hol_ai_ml_streamlit.py *)
(* as a state machine.                                                     *)
(*                                                                         *)
(* The script is run top to bottom ("render pass") on every browser event; *)
(* the keys of st.session_state and the st.cache_data store survive from   *)
(* one pass to the next.  A pass ends when main() returns, when st.rerun() *)
(* is called (a new pass starts at once, with no widget event), or when an *)
(* exception leaves main() (the pass is abandoned, session state keeps     *)
(* what was written so far).  The analyst gateway, the warehouse and the   *)
(* completion function are external: what they answer is chosen freely     *)
(* from small sets.                                                        *)
(*                                                                         *)
(* Representation.  A text is a sequence of string pieces (an f-string is  *)
(* the sequence of its literal parts and formatted fields), so "the text   *)
(* contains s" is membership of a piece.  Python's None is the string None *)
(* where a string is expected and the empty sequence where a text is       *)
(* expected.  Lists are sequences and are indexed from 1, so message_index *)
(* k of the source is idx = k + 1 here.  A JSON value under the key        *)
(* "message" is tagged: [kind |-> "object", ...] for a dict and            *)
(* [kind |-> "string", str |-> s] for a string.                            *)
(***************************************************************************)
EXTENDS Integers, Sequences, FiniteSets, TLC

(***************************************************************************)
(* Bounds of the model.                                                    *)
(***************************************************************************)
\* process_user_input is run at most MaxTurns times
MaxTurns == 2
\* the selectbox offers MaxModels semantic model paths
MaxModels == 2

(***************************************************************************)
(* Program constants.                                                      *)
(***************************************************************************)
\* line 12: the tuple of the source lists one path; the selectbox and its
\* on_change callback are written for any tuple, so the tuple may hold
\* MaxModels paths here (path k stands for the k-th entry).
AVAILABLE_SEMANTIC_MODELS_PATHS == 1..MaxModels
API_ENDPOINT == "/api/v2/cortex/analyst/message"
FEEDBACK_API_ENDPOINT == "/api/v2/cortex/analyst/feedback"
API_TIMEOUT == 50000
InitialQuestion == "What questions can I ask?"

None == "None"
NoneText == <<>>

(***************************************************************************)
(* Inputs.                                                                 *)
(***************************************************************************)
\* what the user may type into st.chat_input
Prompts == {"q1"}
\* HTTP statuses the gateway may answer with
Statuses == {200, 302, 404}
\* request ids the service hands out, one fresh id per request
RequestIds == <<"r1", "r2", "r3", "r4", "r5", "r6">>
RequestIdOf(n) == RequestIds[n]
\* the SQL statement the analyst may generate
SqlStatement == "SELECT 1"

Last(s) == s[Len(s)]
Contains(text, piece) == \E i \in DOMAIN text : text[i] = piece

\* str(status) of the f-strings
StatusText(status) ==
    CASE status = 200 -> "200"
      [] status = 302 -> "302"
      [] status = 404 -> "404"
      [] OTHER -> "other"

(***************************************************************************)
(* Content items and response bodies of the analyst service.               *)
(***************************************************************************)
TextItem(text) == [type |-> "text", text |-> text]
SuggestionsItem(suggestions) == [type |-> "suggestions", suggestions |-> suggestions]
SqlItem(statement) == [type |-> "sql", statement |-> statement, confidence |-> None]

JsonObject(content) == [kind |-> "object", content |-> content]
JsonString(s) == [kind |-> "string", str |-> s]

\* success envelope {message: {content}, request_id} without "warnings"
SuccessBody(content, rid) ==
    [message |-> JsonObject(content), request_id |-> rid]
\* success envelope carrying a "warnings" array
SuccessBodyWarn(content, rid, warns) ==
    [message |-> JsonObject(content), request_id |-> rid, warnings |-> warns]
\* error envelope {request_id, error_code, message}
ErrorBody(rid) ==
    [request_id |-> rid, error_code |-> "E1", message |-> JsonString("bad model")]
\* a JSON body lacking the expected fields
MalformedBody == [detail |-> "bad gateway"]

\* the bodies the gateway may answer a request with
Bodies(rid) ==
    << SuccessBody(<<TextItem(<<"answer">>)>>, rid),
       SuccessBodyWarn(<<TextItem(<<"ambiguous">>), SuggestionsItem(<<"s1">>)>>,
                       rid, <<[message |-> "w1"]>>),
       SuccessBody(<<TextItem(<<"interpretation">>), SqlItem(SqlStatement)>>, rid),
       ErrorBody(rid),
       MalformedBody >>

(***************************************************************************)
(* State.                                                                  *)
(***************************************************************************)
VARIABLES
    \* st.session_state
    inited,                        \* "messages" in st.session_state
    messages,
    active_suggestion,
    warnings,
    form_submitted,
    fire_API_error_notify,
    selected_semantic_model_path,
    \* the st.cache_data store of get_query_exec_result
    cache,
    \* the running script
    pc,                            \* where the pass is, "idle" between passes
    trigger,                       \* the widget event that started the pass
    widgets,                       \* the widgets rendered in this pass so far
    request,                       \* the request in flight
    resp,                          \* the gateway's answer to the last request
    idx, item,                     \* display_conversation's position
    exec_result,                   \* df, err_msg of display_sql_query
    panel,                         \* what display_sql_query has rendered
    \* observations
    turns,                         \* process_user_input calls so far
    turn_failed,                   \* the last turn's gateway call failed
    toasted,                       \* st.toast was shown in this pass
    warehouse_log,                 \* per query text, what session.sql(query) gave, run by run
    feedback_attempted             \* request ids submit_feedback was called for

session_vars == <<inited, messages, active_suggestion, warnings, form_submitted,
                  fire_API_error_notify, selected_semantic_model_path>>
script_vars == <<pc, trigger, widgets, request, resp, idx, item, exec_result, panel>>
observed_vars == <<turns, turn_failed, toasted, warehouse_log,
                   feedback_attempted>>
vars == <<session_vars, cache, script_vars, observed_vars>>

EmptyMap == [k \in {} |-> 0]
Get(map, k, default) == IF k \in DOMAIN map THEN map[k] ELSE default
Put(map, k, v) == [x \in DOMAIN map \cup {k} |-> IF x = k THEN v ELSE map[x]]

NoTrigger == [kind |-> "rerun", text |-> None, i |-> 0, k |-> 0, rid |-> None,
              positive |-> FALSE]
NoWidgets == [basic |-> {}, suggestions |-> {}, forms |-> {}, charts |-> {}]
NoRequest == [path |-> None]
NoResp == [status |-> 0]
NoResult == [cached |-> FALSE]
NoPanel == [complete |-> None, summary |-> FALSE, warning |-> FALSE,
            sql |-> FALSE, results |-> None]

Init ==
    /\ inited = FALSE
    /\ messages = <<>>
    /\ active_suggestion = None
    /\ warnings = <<>>
    /\ form_submitted = EmptyMap
    /\ fire_API_error_notify = FALSE
    /\ selected_semantic_model_path = 1
    /\ cache = EmptyMap
    /\ pc = "idle"
    /\ trigger = NoTrigger
    /\ widgets = NoWidgets
    /\ request = NoRequest
    /\ resp = NoResp
    /\ idx = 0
    /\ item = 0
    /\ exec_result = NoResult
    /\ panel = NoPanel
    /\ turns = 0
    /\ turn_failed = FALSE
    /\ toasted = FALSE
    /\ warehouse_log = EmptyMap
    /\ feedback_attempted = {}


(***************************************************************************)
(* reset_session_state, lines 33-38.                                       *)
(***************************************************************************)
\* a reset that forgets the feedback map
reset_session_state_keeps_feedback ==
    /\ messages' = <<>>
    /\ active_suggestion' = None
    /\ warnings' = <<>>
    /\ UNCHANGED form_submitted

reset_session_state ==
    /\ messages' = <<>>
    /\ active_suggestion' = None
    /\ warnings' = <<>>
    /\ form_submitted' = EmptyMap

(***************************************************************************)
(* get_analyst_response, lines 135-183, and the part of process_user_input *)
(* that builds the messages, lines 91-94 and 105-118.                      *)
(***************************************************************************)
new_user_message(prompt) ==
    [role |-> "user", content |-> <<TextItem(<<prompt>>)>>]

\* a request that carries the latest message only
request_body_last_only(msgs, model_path) ==
    [path |-> API_ENDPOINT,
     body |-> [messages |-> <<Last(msgs)>>, semantic_model_file |-> model_path]]

\* lines 146-160: the request handed to _snowflake.send_snow_api_request
request_body(msgs, model_path) ==
    [path |-> API_ENDPOINT,
     body |-> [messages |-> msgs, semantic_model_file |-> model_path]]

\* str() of the value under "message" inside the f-string
MessageText(v) == IF v.kind = "string" THEN v.str ELSE "{'content': [...]}"

\* an error text that leaves the error code out
error_msg_without_code(status, parsed_content) ==
    << "An Analyst API error has occurred",
       "response code:", StatusText(status),
       "request-id:", parsed_content.request_id,
       "Message:", MessageText(parsed_content.message) >>

\* lines 171-182: the f-string of the error text
error_msg(status, parsed_content) ==
    << "An Analyst API error has occurred",
       "response code:", StatusText(status),
       "request-id:", parsed_content.request_id,
       "error code:", parsed_content.error_code,
       "Message:", MessageText(parsed_content.message) >>

\* lines 163-183: <<response, error_msg>>, where it does not raise
get_analyst_response(r) ==
    IF r.status < 400
    THEN <<r.content, NoneText>>
    ELSE <<r.content, error_msg(r.status, r.content)>>

\* lines 105-118: the analyst message built from <<response, error_msg>>
analyst_message(response, err) ==
    IF err = NoneText
    THEN [role |-> "analyst",
          content |-> response.message.content,
          request_id |-> response.request_id,
          api_response |-> response]
    ELSE [role |-> "analyst",
          content |-> <<TextItem(err)>>,
          request_id |-> response.request_id,
          api_response |-> response]

\* a key or subscript of lines 108-109 or 175-180 is missing: KeyError or
\* TypeError leaves process_user_input
turn_raises(r) ==
    IF r.status < 400
    THEN ~ ( /\ "message" \in DOMAIN r.content
             /\ r.content.message.kind = "object"
             /\ "content" \in DOMAIN r.content.message
             /\ "request_id" \in DOMAIN r.content )
    ELSE ~ ( {"request_id", "error_code", "message"} \subseteq DOMAIN r.content )

\* lines 121-122
record_warnings(response, current) ==
    IF "warnings" \in DOMAIN response THEN response.warnings ELSE current

(***************************************************************************)
(* process_user_input, lines 80-125, up to the request being sent.         *)
(***************************************************************************)
\* a turn that does not clear the warnings of the turn before
process_user_input_keeps_warnings(prompt) ==
    /\ UNCHANGED warnings
    /\ messages' = Append(messages, new_user_message(prompt))
    /\ request' = request_body(messages', selected_semantic_model_path)
    /\ pc' = "awaiting"
    /\ turns' = turns + 1
    /\ turn_failed' = FALSE

\* a turn that starts the history anew
process_user_input_starts_anew(prompt) ==
    /\ warnings' = <<>>
    /\ messages' = <<new_user_message(prompt)>>
    /\ request' = request_body(messages', selected_semantic_model_path)
    /\ pc' = "awaiting"
    /\ turns' = turns + 1
    /\ turn_failed' = FALSE

\* lines 80-104: up to the call of the gateway
process_user_input(prompt) ==
    /\ warnings' = <<>>
    /\ messages' = Append(messages, new_user_message(prompt))
    /\ request' = request_body(messages', selected_semantic_model_path)
    /\ pc' = "awaiting"
    /\ turns' = turns + 1
    /\ turn_failed' = FALSE

(***************************************************************************)
(* The browser: the events that start a render pass.                       *)
(***************************************************************************)
Trigger(kind, text, i, k, rid, positive) ==
    [kind |-> kind, text |-> text, i |-> i, k |-> k, rid |-> rid,
     positive |-> positive]

StartPass(t) ==
    /\ pc = "idle"
    /\ pc' = "main"
    /\ trigger' = t
    /\ UNCHANGED <<session_vars, cache, widgets, request, resp, idx, item,
                   exec_result, panel, observed_vars>>

\* the page is opened: the first run of the script
Load ==
    /\ ~inited
    /\ StartPass(Trigger("load", None, 0, 0, None, FALSE))

\* line 66: a question is typed into st.chat_input
ChatInput ==
    /\ "chat_input" \in widgets.basic
    /\ \E p \in Prompts : StartPass(Trigger("chat", p, 0, 0, None, FALSE))

\* lines 217-219: a suggestion button is clicked
ClickSuggestion ==
    /\ turns < MaxTurns
    /\ \E s \in widgets.suggestions :
          StartPass(Trigger("suggestion", None, s[1], s[2], None, FALSE))

\* line 60: the Clear Chat History button is clicked
ClickClear ==
    /\ "sidebar" \in widgets.basic
    /\ turns < MaxTurns
    /\ StartPass(Trigger("clear", None, 0, 0, None, FALSE))

\* lines 50-56: another semantic model is selected; the new value is stored
\* under the widget's key and the on_change callback runs before the script
SelectModel ==
    /\ pc = "idle"
    /\ "sidebar" \in widgets.basic
    /\ turns < MaxTurns
    /\ \E m \in AVAILABLE_SEMANTIC_MODELS_PATHS \ {selected_semantic_model_path} :
          selected_semantic_model_path' = m
    /\ pc' = "callback"
    /\ trigger' = Trigger("model", None, 0, 0, None, FALSE)
    /\ UNCHANGED <<inited, messages, active_suggestion, warnings, form_submitted,
                   fire_API_error_notify, cache, widgets, request, resp, idx,
                   item, exec_result, panel, observed_vars>>

\* line 55: on_change=reset_session_state
OnChange ==
    /\ pc = "callback"
    /\ reset_session_state
    /\ pc' = "main"
    /\ UNCHANGED <<inited, fire_API_error_notify, selected_semantic_model_path,
                   cache, trigger, widgets, request, resp, idx, item,
                   exec_result, panel, observed_vars>>

\* lines 376-388: a chart selectbox is changed, which only reruns the script
ChangeChart ==
    /\ widgets.charts # {}
    /\ StartPass(Trigger("chart", None, 0, 0, None, FALSE))

\* line 410: the Submit button of a feedback form is clicked
SubmitFeedback ==
    /\ \E rid \in widgets.forms, positive \in BOOLEAN :
          StartPass(Trigger("feedback", None, 0, 0, rid, positive))

(***************************************************************************)
(* main, lines 21-31, and show_header_and_sidebar, lines 40-61.            *)
(***************************************************************************)
\* lines 23-24: the pass begins with an empty page
Main ==
    /\ pc = "main"
    /\ IF ~inited
         THEN reset_session_state
         ELSE UNCHANGED <<messages, active_suggestion, warnings, form_submitted>>
    /\ inited' = TRUE
    /\ widgets' = NoWidgets
    /\ resp' = NoResp
    /\ toasted' = FALSE
    /\ pc' = "sidebar"
    /\ UNCHANGED <<fire_API_error_notify, selected_semantic_model_path, cache,
                   trigger, request, idx, item, exec_result, panel, turns,
                   turn_failed, warehouse_log, feedback_attempted>>

\* lines 40-61
show_header_and_sidebar ==
    /\ pc = "sidebar"
    /\ widgets' = [widgets EXCEPT !.basic = @ \cup {"sidebar"}]
    /\ IF trigger.kind = "clear"
         THEN reset_session_state
         ELSE UNCHANGED <<messages, active_suggestion, warnings, form_submitted>>
    /\ pc' = "check_empty"
    /\ UNCHANGED <<inited, fire_API_error_notify, selected_semantic_model_path,
                   cache, trigger, request, resp, idx, item, exec_result, panel,
                   observed_vars>>

\* a main that goes on to display_conversation with the empty history
InitialTurn_skipped ==
    /\ pc = "check_empty"
    /\ Len(messages) = 0
    /\ pc' = "display"
    /\ idx' = 1
    /\ item' = 1
    /\ UNCHANGED <<session_vars, cache, trigger, widgets, request, resp,
                   exec_result, panel, observed_vars>>

\* lines 26-27
InitialTurn ==
    /\ pc = "check_empty"
    /\ Len(messages) = 0
    /\ process_user_input(InitialQuestion)
    /\ UNCHANGED <<inited, active_suggestion, form_submitted,
                   fire_API_error_notify, selected_semantic_model_path, cache,
                   trigger, widgets, resp, idx, item, exec_result, panel, toasted,
                   warehouse_log, feedback_attempted>>

\* lines 26 and 28, with line 189
BeginDisplay ==
    /\ pc = "check_empty"
    /\ Len(messages) # 0
    /\ pc' = "display"
    /\ idx' = 1
    /\ item' = 1
    /\ UNCHANGED <<session_vars, cache, trigger, widgets, request, resp,
                   exec_result, panel, observed_vars>>

(***************************************************************************)
(* The analyst gateway, _snowflake.send_snow_api_request.                  *)
(***************************************************************************)
\* the responses the gateway may give to the request in flight
send_snow_api_request ==
    LET rid == IF request.path = API_ENDPOINT
                 THEN RequestIdOf(turns)
                 ELSE request.body.request_id
    IN { <<status, b>> : status \in Statuses, b \in 1..Len(Bodies(rid)) }

\* resp of lines 152-160 and 432-440: the status and the parsed JSON content
Response(sb) ==
    LET rid == IF request.path = API_ENDPOINT
                 THEN RequestIdOf(turns)
                 ELSE request.body.request_id
    IN [status |-> sb[1], content |-> Bodies(rid)[sb[2]]]

\* lines 104-125: the response is turned into the analyst message
ProcessUserInputReturn ==
    /\ pc = "awaiting"
    /\ request.path = API_ENDPOINT
    /\ \E sb \in send_snow_api_request :
          /\ resp' = Response(sb)
          /\ ~turn_raises(resp')
          /\ LET got == get_analyst_response(resp')
                 response == got[1]
                 err == got[2]
             IN /\ messages' = Append(messages, analyst_message(response, err))
                /\ fire_API_error_notify' =
                      IF err = NoneText THEN fire_API_error_notify ELSE TRUE
                /\ warnings' = record_warnings(response, warnings)
          /\ turn_failed' = (resp'.status >= 400)
    \* line 125: st.rerun()
    /\ pc' = "main"
    /\ trigger' = NoTrigger
    /\ request' = NoRequest
    /\ idx' = 0
    /\ item' = 0
    /\ UNCHANGED <<inited, active_suggestion, form_submitted,
                   selected_semantic_model_path, cache, widgets, exec_result,
                   panel, turns, toasted, warehouse_log,
                   feedback_attempted>>

\* the exception leaves main(): the pass is abandoned
ProcessUserInputRaise ==
    /\ pc = "awaiting"
    /\ request.path = API_ENDPOINT
    /\ \E sb \in send_snow_api_request :
          /\ resp' = Response(sb)
          /\ turn_raises(resp')
          /\ turn_failed' = (resp'.status >= 400)
    /\ pc' = "idle"
    /\ trigger' = NoTrigger
    /\ request' = NoRequest
    /\ idx' = 0
    /\ item' = 0
    /\ UNCHANGED <<session_vars, cache, widgets, exec_result, panel, turns,
                   toasted, warehouse_log, feedback_attempted>>


(***************************************************************************)
(* display_conversation and display_message, lines 185-233.                *)
(***************************************************************************)
CurrentMessage == messages[idx]
CurrentItem == messages[idx].content[item]

\* lines 212-220 and 226-228: a text item, or the buttons of a suggestions
\* item, one of which may be the button that was clicked
DisplayItem ==
    /\ pc = "display"
    /\ idx <= Len(messages)
    /\ item <= Len(CurrentMessage.content)
    /\ CurrentItem.type # "sql"
    /\ IF CurrentItem.type = "suggestions"
         THEN LET sugs == CurrentItem.suggestions
              IN /\ widgets' = [widgets EXCEPT !.suggestions =
                                   @ \cup {<<idx, k>> : k \in DOMAIN sugs}]
                 /\ active_suggestion' =
                       IF /\ trigger.kind = "suggestion"
                          /\ trigger.i = idx
                          /\ trigger.k \in DOMAIN sugs
                         THEN sugs[trigger.k]
                         ELSE active_suggestion
         ELSE UNCHANGED <<widgets, active_suggestion>>
    /\ item' = item + 1
    /\ UNCHANGED <<inited, messages, warnings, form_submitted,
                   fire_API_error_notify, selected_semantic_model_path, cache,
                   pc, trigger, request, resp, idx, exec_result, panel,
                   observed_vars>>

\* lines 221-225: a sql item is handed to display_sql_query
DisplaySqlItem ==
    /\ pc = "display"
    /\ idx <= Len(messages)
    /\ item <= Len(CurrentMessage.content)
    /\ CurrentItem.type = "sql"
    /\ pc' = "run_sql"
    /\ panel' = NoPanel
    /\ UNCHANGED <<session_vars, cache, trigger, widgets, request, resp, idx,
                   item, exec_result, observed_vars>>

\* lines 230-233 and the next round of the loop of line 189
NextMessage ==
    /\ pc = "display"
    /\ idx <= Len(messages)
    /\ item > Len(CurrentMessage.content)
    /\ idx' = idx + 1
    /\ item' = 1
    /\ UNCHANGED <<session_vars, cache, pc, trigger, widgets, request, resp,
                   exec_result, panel, observed_vars>>

\* line 189: the loop is over
EndDisplay ==
    /\ pc = "display"
    /\ idx > Len(messages)
    /\ pc' = "inputs"
    /\ UNCHANGED <<session_vars, cache, trigger, widgets, request, resp, idx,
                   item, exec_result, panel, observed_vars>>

(***************************************************************************)
(* get_query_exec_result, lines 235-251, under st.cache_data.              *)
(***************************************************************************)
DataFrame(columns, rows) == [columns |-> columns, rows |-> rows]
\* df.empty
Empty(df) == df.rows = 0 \/ Len(df.columns) = 0
\* <<df, err_msg>>: df is <<frame>>, or <<>> for None
ExecResult(df, err_msg) == [df |-> df, err_msg |-> err_msg]

\* what session.sql(query).to_pandas() may give: a frame, or the
\* SnowparkSQLException of line 250
WarehouseResults ==
    { ExecResult(<<DataFrame(<<"A", "B">>, 1)>>, None),
      ExecResult(<<DataFrame(<<"A">>, 1)>>, None),
      ExecResult(<<DataFrame(<<"A", "B">>, 0)>>, None),
      ExecResult(<<>>, "SQL compilation error") }

\* a store that never finds an entry
cache_hit_never(query) == FALSE

\* st.cache_data: the call was made before with this argument
cache_hit(query) == query \in DOMAIN cache

\* line 290
get_query_exec_result ==
    /\ pc = "run_sql"
    /\ LET query == CurrentItem.statement
       IN IF cache_hit(query)
            THEN /\ exec_result' = cache[query]
                 /\ UNCHANGED <<cache, warehouse_log>>
            ELSE \E r \in WarehouseResults :
                    /\ exec_result' = r
                    /\ cache' = Put(cache, query, r)
                    /\ warehouse_log' =
                          Put(warehouse_log, query,
                              Append(Get(warehouse_log, query, <<>>), r))
    /\ pc' = "summary"
    /\ UNCHANGED <<session_vars, trigger, widgets, request, resp, idx, item,
                   panel, turns, turn_failed, toasted, feedback_attempted>>

(***************************************************************************)
(* display_sql_query, lines 276-362.                                       *)
(***************************************************************************)
\* how the SNOWFLAKE.CORTEX.COMPLETE call of lines 324-335 may end
CompleteOutcomes ==
    {"summary", "raises", "empty", "no_response_column", "invalid_format"}

\* lines 336-337: the summary is written when the try block got to its end
summary_shown(o) == o = "summary"

\* an except clause that catches the exception of the call only
summary_warning_on_raise_only(o) == o = "raises"

\* lines 338-339: except Exception catches whatever the try block raised
summary_warning(o) == o # "summary"

\* lines 293-339; panel.complete keeps how the completion call ended
Summarize ==
    /\ pc = "summary"
    /\ IF exec_result.df # <<>> /\ ~Empty(exec_result.df[1])
         THEN \E o \in CompleteOutcomes :
                 panel' = [panel EXCEPT !.complete = o,
                                        !.summary = summary_shown(o),
                                        !.warning = summary_warning(o)]
         ELSE UNCHANGED panel
    /\ pc' = "panels"
    /\ UNCHANGED <<session_vars, cache, trigger, widgets, request, resp, idx,
                   item, exec_result, observed_vars>>

\* a chart tab that draws whenever the table has a column
chart_drawn_for_any_column(df) == Len(df.columns) >= 1

\* line 373: there should be at least 2 columns to draw charts
chart_drawn(df) == Len(df.columns) >= 2

\* lines 342-359, with display_charts_tab, lines 364-394; the three
\* selectboxes of message idx are the entry idx of widgets.charts
Panels ==
    /\ pc = "panels"
    /\ LET df == exec_result.df
       IN /\ panel' = [panel EXCEPT
                !.sql = TRUE,
                !.results = IF df = <<>> THEN "error"
                            ELSE IF Empty(df[1]) THEN "no data"
                            ELSE IF chart_drawn(df[1]) THEN "data and chart"
                            ELSE "data and notice"]
          /\ widgets' = IF df # <<>> /\ ~Empty(df[1]) /\ chart_drawn(df[1])
                          THEN [widgets EXCEPT !.charts = @ \cup {idx}]
                          ELSE widgets
    /\ pc' = "feedback"
    /\ UNCHANGED <<session_vars, cache, trigger, request, resp, idx, item,
                   exec_result, observed_vars>>

(***************************************************************************)
(* display_feedback_section, lines 396-422, and submit_feedback, 424-458.  *)
(***************************************************************************)
feedback_body(request_id, positive, feedback_message) ==
    [path |-> FEEDBACK_API_ENDPOINT,
     body |-> [request_id |-> request_id, positive |-> positive,
               feedback_message |-> feedback_message]]

\* a form that comes back after a failed submission
form_offered_after_error(request_id) ==
    IF request_id \in DOMAIN form_submitted
      THEN form_submitted[request_id].error # NoneText
      ELSE TRUE

\* line 398: the form is rendered while the request id has no record
form_offered(request_id) == request_id \notin DOMAIN form_submitted

\* lines 361-362 and 398-410 with the Submit button clicked: submit_feedback
\* sends its request
FeedbackSubmitted ==
    /\ pc = "feedback"
    /\ LET request_id == CurrentMessage.request_id
       IN /\ request_id # ""
          /\ form_offered(request_id)
          /\ trigger.kind = "feedback"
          /\ trigger.rid = request_id
          /\ widgets' = [widgets EXCEPT !.forms = @ \cup {request_id}]
          /\ request' = feedback_body(request_id, trigger.positive, "")
          /\ feedback_attempted' = feedback_attempted \cup {request_id}
    /\ pc' = "awaiting"
    /\ UNCHANGED <<session_vars, cache, trigger, resp, idx, item, exec_result,
                   panel, turns, turn_failed, toasted, warehouse_log>>

\* lines 361-362 and 398-422 otherwise: the form, or the stored outcome
FeedbackShown ==
    /\ pc = "feedback"
    /\ LET request_id == CurrentMessage.request_id
       IN /\ ~ ( /\ request_id # ""
                 /\ form_offered(request_id)
                 /\ trigger.kind = "feedback"
                 /\ trigger.rid = request_id )
          /\ widgets' = IF request_id # "" /\ form_offered(request_id)
                          THEN [widgets EXCEPT !.forms = @ \cup {request_id}]
                          ELSE widgets
    /\ pc' = "display"
    /\ item' = item + 1
    /\ panel' = NoPanel
    /\ exec_result' = NoResult
    /\ UNCHANGED <<session_vars, cache, trigger, request, resp, idx,
                   observed_vars>>

\* lines 446-457: the f-string of the error text
err_msg(status, parsed_content) ==
    << "An Analyst API error has occurred",
       "response code:", StatusText(status),
       "request-id:", parsed_content.request_id,
       "error code:", parsed_content.error_code,
       "Message:", MessageText(parsed_content.message) >>

\* lines 441-458: None, or the error text, where it does not raise
submit_feedback(r) ==
    IF r.status = 200 THEN NoneText ELSE err_msg(r.status, r.content)

\* a key of lines 450-455 is missing: KeyError leaves submit_feedback
feedback_raises(r) ==
    /\ r.status # 200
    /\ ~ ( {"request_id", "error_code", "message"} \subseteq DOMAIN r.content )

\* lines 412-415: the outcome is recorded and the script rerun
FeedbackReturn ==
    /\ pc = "awaiting"
    /\ request.path = FEEDBACK_API_ENDPOINT
    /\ \E sb \in send_snow_api_request :
          /\ resp' = Response(sb)
          /\ ~feedback_raises(resp')
          /\ form_submitted' = Put(form_submitted, request.body.request_id,
                                   [error |-> submit_feedback(resp')])
    \* line 415: st.rerun()
    /\ pc' = "main"
    /\ trigger' = NoTrigger
    /\ request' = NoRequest
    /\ panel' = NoPanel
    /\ exec_result' = NoResult
    /\ idx' = 0
    /\ item' = 0
    /\ UNCHANGED <<inited, messages, active_suggestion, warnings,
                   fire_API_error_notify, selected_semantic_model_path, cache,
                   widgets, observed_vars>>

\* the exception leaves main(): the pass is abandoned, nothing is recorded
FeedbackRaise ==
    /\ pc = "awaiting"
    /\ request.path = FEEDBACK_API_ENDPOINT
    /\ \E sb \in send_snow_api_request :
          /\ resp' = Response(sb)
          /\ feedback_raises(resp')
    /\ pc' = "idle"
    /\ trigger' = NoTrigger
    /\ request' = NoRequest
    /\ idx' = 0
    /\ item' = 0
    /\ panel' = NoPanel
    /\ exec_result' = NoResult
    /\ UNCHANGED <<session_vars, cache, widgets, observed_vars>>

(***************************************************************************)
(* handle_user_inputs, handle_error_notifications, display_warnings.       *)
(***************************************************************************)
\* lines 66-68
ChatTurn ==
    /\ pc = "inputs"
    /\ trigger.kind = "chat"
    /\ turns < MaxTurns
    /\ widgets' = [widgets EXCEPT !.basic = @ \cup {"chat_input"}]
    /\ process_user_input(trigger.text)
    /\ UNCHANGED <<inited, active_suggestion, form_submitted,
                   fire_API_error_notify, selected_semantic_model_path, cache,
                   trigger, resp, idx, item, exec_result, panel, toasted,
                   warehouse_log, feedback_attempted>>

\* a handler that leaves the pointer set
SuggestionTurn_keeps_pointer ==
    /\ pc = "inputs"
    /\ trigger.kind # "chat"
    /\ active_suggestion # None
    /\ widgets' = [widgets EXCEPT !.basic = @ \cup {"chat_input"}]
    /\ process_user_input(active_suggestion)
    /\ UNCHANGED <<inited, active_suggestion, form_submitted,
                   fire_API_error_notify, selected_semantic_model_path, cache,
                   trigger, resp, idx, item, exec_result, panel, toasted,
                   warehouse_log, feedback_attempted>>

\* lines 70-73
SuggestionTurn ==
    /\ pc = "inputs"
    /\ trigger.kind # "chat"
    /\ active_suggestion # None
    /\ widgets' = [widgets EXCEPT !.basic = @ \cup {"chat_input"}]
    /\ active_suggestion' = None
    /\ process_user_input(active_suggestion)
    /\ UNCHANGED <<inited, form_submitted, fire_API_error_notify,
                   selected_semantic_model_path, cache, trigger, resp, idx, item,
                   exec_result, panel, toasted, warehouse_log,
                   feedback_attempted>>

\* lines 66-73 with neither
NoInput ==
    /\ pc = "inputs"
    /\ trigger.kind # "chat"
    /\ active_suggestion = None
    /\ widgets' = [widgets EXCEPT !.basic = @ \cup {"chat_input"}]
    /\ pc' = "notify"
    /\ UNCHANGED <<session_vars, cache, trigger, request, resp, idx, item,
                   exec_result, panel, observed_vars>>

\* lines 75-78
handle_error_notifications ==
    /\ pc = "notify"
    /\ IF fire_API_error_notify
         THEN /\ toasted' = TRUE
              /\ fire_API_error_notify' = FALSE
         ELSE UNCHANGED <<toasted, fire_API_error_notify>>
    /\ pc' = "warn"
    /\ UNCHANGED <<inited, messages, active_suggestion, warnings, form_submitted,
                   selected_semantic_model_path, cache, trigger, widgets, request,
                   resp, idx, item, exec_result, panel, turns, turn_failed,
                   warehouse_log, feedback_attempted>>

\* lines 127-133; main() returns
display_warnings ==
    /\ pc = "warn"
    /\ turn_failed' = FALSE
    /\ pc' = "idle"
    /\ trigger' = NoTrigger
    /\ idx' = 0
    /\ item' = 0
    /\ UNCHANGED <<session_vars, cache, widgets, request, resp, exec_result,
                   panel, turns, toasted, warehouse_log, feedback_attempted>>

(***************************************************************************)
(* The specification.                                                      *)
(***************************************************************************)
Next ==
    \/ Load
    \/ ChatInput
    \/ ClickSuggestion
    \/ ClickClear
    \/ SelectModel
    \/ OnChange
    \/ ChangeChart
    \/ SubmitFeedback
    \/ Main
    \/ show_header_and_sidebar
    \/ InitialTurn
    \/ BeginDisplay
    \/ ProcessUserInputReturn
    \/ ProcessUserInputRaise
    \/ DisplayItem
    \/ DisplaySqlItem
    \/ NextMessage
    \/ EndDisplay
    \/ get_query_exec_result
    \/ Summarize
    \/ Panels
    \/ FeedbackSubmitted
    \/ FeedbackShown
    \/ FeedbackReturn
    \/ FeedbackRaise
    \/ ChatTurn
    \/ SuggestionTurn
    \/ NoInput
    \/ handle_error_notifications
    \/ display_warnings

Spec == Init /\ [][Next]_vars


(***************************************************************************)
(* Steps and states the claims speak of.                                   *)
(***************************************************************************)
\* a turn is under way: process_user_input waits for the analyst's answer
TurnInFlight == pc = "awaiting" /\ request.path = API_ENDPOINT
\* submit_feedback waits for the answer
FeedbackInFlight == pc = "awaiting" /\ request.path = FEEDBACK_API_ENDPOINT
\* this step runs reset_session_state
ResetStep ==
    \/ pc = "callback"
    \/ pc = "sidebar" /\ trigger.kind = "clear"
    \/ pc = "main" /\ ~inited
\* the body is an error envelope {request_id, error_code, message}
IsErrorEnvelope(body) ==
    /\ {"request_id", "error_code", "message"} \subseteq DOMAIN body
    /\ body.message.kind = "string"
\* the message is the error turn synthesized from the error envelope
IsErrorTurn(m, body) ==
    /\ m.role = "analyst"
    /\ Len(m.content) = 1
    /\ m.content[1].type = "text"
    /\ Contains(m.content[1].text, body.request_id)
    /\ Contains(m.content[1].text, body.error_code)
    /\ Contains(m.content[1].text, body.message.str)
WarningsOf(response) ==
    IF "warnings" \in DOMAIN response THEN response.warnings ELSE <<>>

(***************************************************************************)
(* C1: each turn run by process_user_input makes the history longer by     *)
(* exactly 2, the user message when the turn begins and the analyst        *)
(* message when it ends, and the history gets shorter only by              *)
(* reset_session_state, which makes its length 0.                          *)
(***************************************************************************)
C1_TurnAddsTwo ==
    [][ /\ (~TurnInFlight /\ TurnInFlight')
           => /\ Len(messages') = Len(messages) + 1
              /\ Last(messages').role = "user"
        /\ (TurnInFlight /\ ~TurnInFlight')
           => /\ Len(messages') = Len(messages) + 1
              /\ Last(messages').role = "analyst"
        /\ (TurnInFlight <=> TurnInFlight')
           => \/ Len(messages') = Len(messages)
              \/ ResetStep /\ Len(messages') = 0 ]_vars

(***************************************************************************)
(* C2: warnings are replaced, never accumulated: they are empty from the   *)
(* moment a turn begins, after the turn they are exactly the "warnings"    *)
(* array of that turn's response (empty when it carries none); this set is *)
(* what display_warnings reads.                                            *)
(***************************************************************************)
C2_WarningsReplaced ==
    /\ TurnInFlight => warnings = <<>>
    /\ IF messages # <<>> /\ Last(messages).role = "analyst"
         THEN warnings = WarningsOf(Last(messages).api_response)
         ELSE warnings = <<>>

\* a second turn without warnings has ended after a first turn with warnings
C2_Witness ==
    /\ Len(messages) = 4
    /\ WarningsOf(messages[2].api_response) # <<>>
    /\ WarningsOf(messages[4].api_response) = <<>>
    /\ warnings = <<>>
    /\ pc = "idle"

(***************************************************************************)
(* C3: reset_session_state, run by the Clear Chat History button or by a   *)
(* change of the semantic model, clears message history, warnings, active  *)
(* suggestion and feedback map together: the pass sees all four cleared    *)
(* right after it.                                                         *)
(***************************************************************************)
C3_ResetClearsAllFour ==
    ( \/ pc = "check_empty" /\ trigger.kind = "clear"
      \/ pc = "main" /\ trigger.kind = "model" )
    => /\ messages = <<>>
       /\ warnings = <<>>
       /\ active_suggestion = None
       /\ DOMAIN form_submitted = {}

\* Clear Chat History was clicked on a conversation that had feedback recorded
C3_Witness ==
    /\ pc = "check_empty"
    /\ trigger.kind = "clear"
    /\ turns > 0
    /\ feedback_attempted # {}
    /\ messages = <<>>

(***************************************************************************)
(* C4: feedback is one-shot per request_id: once submit_feedback has been  *)
(* called for a request_id, no pass renders the form for it again and      *)
(* submit_feedback is not called for it a second time.                     *)
(***************************************************************************)
C4_FeedbackOneShot ==
    [][ (pc = "feedback" /\ CurrentMessage.request_id \in feedback_attempted)
        => /\ ~FeedbackInFlight'
           /\ CurrentMessage.request_id \notin widgets'.forms ]_vars

(***************************************************************************)
(* C5: whatever the gateway answers, process_user_input ends by appending  *)
(* the analyst message and calling st.rerun().                             *)
(***************************************************************************)
C5_TurnAlwaysCompletes ==
    [][ TurnInFlight
        => /\ Len(messages') = Len(messages) + 1
           /\ Last(messages').role = "analyst"
           /\ pc' = "main"
           /\ trigger' = NoTrigger ]_vars

(***************************************************************************)
(* C6: every answer with a status outside 200-299 is an error: from the    *)
(* message endpoint the analyst turn is the error text with request id,    *)
(* error code and message, the notification is armed and the script        *)
(* reruns; from the feedback endpoint the FeedbackRecord holds an error.   *)
(***************************************************************************)
C6_Non2xxIsError ==
    [][ (pc = "awaiting" /\ ~(resp'.status \in 200..299))
        => IF request.path = API_ENDPOINT
             THEN /\ Len(messages') = Len(messages) + 1
                  /\ IsErrorEnvelope(resp'.content)
                  /\ IsErrorTurn(Last(messages'), resp'.content)
                  /\ fire_API_error_notify'
                  /\ pc' = "main"
             ELSE /\ request.body.request_id \in DOMAIN form_submitted'
                  /\ form_submitted'[request.body.request_id].error # NoneText
      ]_vars

(***************************************************************************)
(* C7: the toast is shown in a pass if and only if that pass follows a     *)
(* turn whose gateway call failed, and once handle_error_notifications has *)
(* run the flag fire_API_error_notify is false.                            *)
(***************************************************************************)
C7_ToastOncePerFailedTurn ==
    pc = "warn" => /\ toasted <=> turn_failed
                   /\ ~fire_API_error_notify

(***************************************************************************)
(* C8: for an error envelope that the message endpoint returns with a      *)
(* status >= 400, the analyst message is one text item whose text contains *)
(* the envelope's request_id, error_code and message.                      *)
(***************************************************************************)
C8_ErrorTextEmbedsEnvelope ==
    [][ ( /\ TurnInFlight
          /\ resp'.status >= 400
          /\ IsErrorEnvelope(resp'.content) )
        => /\ Len(messages') = Len(messages) + 1
           /\ IsErrorTurn(Last(messages'), resp'.content) ]_vars

\* the turn that has just ended got status 404 with an error envelope
C8_Witness ==
    /\ pc = "main"
    /\ resp.status = 404
    /\ IsErrorEnvelope(resp.content)
    /\ messages # <<>>
    /\ Last(messages).role = "analyst"
    /\ Last(messages).request_id = resp.content.request_id
    /\ Contains(Last(messages).content[1].text, "bad model")

(***************************************************************************)
(* C9: while the request of a turn is in flight, its messages field is the *)
(* whole history, which ends with the user message of this turn, and its   *)
(* semantic_model_file is the selected path.                               *)
(***************************************************************************)
ExpectedPrompt ==
    CASE trigger.kind = "chat" -> {trigger.text}
      [] trigger.kind = "suggestion" ->
            { messages[trigger.i].content[it].suggestions[trigger.k] :
                it \in { j \in DOMAIN messages[trigger.i].content :
                           messages[trigger.i].content[j].type = "suggestions" } }
      [] OTHER -> {InitialQuestion}

C9_RequestCarriesWholeHistory ==
    TurnInFlight
    => /\ request.body.messages = messages
       /\ Last(request.body.messages).role = "user"
       /\ \E p \in ExpectedPrompt :
             Last(request.body.messages).content = <<TextItem(<<p>>)>>
       /\ request.body.semantic_model_file = selected_semantic_model_path

\* the request of a second turn is in flight
C9_Witness ==
    /\ TurnInFlight
    /\ Len(messages) = 3
    /\ Len(request.body.messages) = 3

(***************************************************************************)
(* C10: query execution is memoized by the SQL text: the warehouse runs a  *)
(* text at most once, and get_query_exec_result returns what that first    *)
(* run gave, in every pass that displays the text.                         *)
(***************************************************************************)
C10_QueryMemoized ==
    /\ \A q \in DOMAIN warehouse_log : Len(warehouse_log[q]) = 1
    /\ pc \in {"summary", "panels", "feedback"}
       => /\ CurrentItem.statement \in DOMAIN warehouse_log
          /\ exec_result = warehouse_log[CurrentItem.statement][1]

\* a later pass displays a statement that an earlier pass has run
C10_Witness ==
    /\ pc = "summary"
    /\ trigger.kind = "chart"
    /\ exec_result = warehouse_log[CurrentItem.statement][1]


(***************************************************************************)
(* C11: when the summarization of a query result fails (the completion     *)
(* call raises, returns nothing, returns no RESPONSE column or returns a   *)
(* malformed shape), no summary is written, the warning is shown, and the  *)
(* SQL panel and the Results panel with the data of that query are still   *)
(* rendered in the same pass.                                              *)
(***************************************************************************)
SummarizationFailed == panel.complete \in CompleteOutcomes \ {"summary"}

C11_SummaryFailureDegrades ==
    /\ (pc \in {"panels", "feedback"} /\ SummarizationFailed)
       => /\ ~panel.summary
          /\ panel.warning
    /\ (pc = "feedback" /\ SummarizationFailed)
       => /\ panel.sql
          /\ panel.results \in {"data and chart", "data and notice"}

C11_Witness ==
    /\ pc = "feedback"
    /\ panel.complete = "invalid_format"
    /\ panel.warning
    /\ panel.sql
    /\ panel.results = "data and chart"

(***************************************************************************)
(* C12: for a result table with fewer than 2 columns display_charts_tab    *)
(* draws no chart, shows the notice "At least 2 columns are required" and  *)
(* creates none of the selectboxes x_col_select_, y_col_select_,           *)
(* chart_type_ of that message index.                                      *)
(***************************************************************************)
FewerThanTwoColumns ==
    /\ exec_result.df # <<>>
    /\ ~Empty(exec_result.df[1])
    /\ Len(exec_result.df[1].columns) < 2

C12_NoChartBelowTwoColumns ==
    (pc = "feedback" /\ FewerThanTwoColumns)
       => /\ panel.results = "data and notice"
          /\ idx \notin widgets.charts

C12_Witness ==
    /\ pc = "feedback"
    /\ FewerThanTwoColumns
    /\ panel.results = "data and notice"
    /\ widgets.charts = {}

(***************************************************************************)
(* C13: a pending suggestion is consumed exactly once.  The pointer        *)
(* active_suggestion is set only inside the pass of a suggestion click, up *)
(* to handle_user_inputs; there it is set to None and one turn is started  *)
(* with the user message that chat input of the same text would give; and  *)
(* a turn is started only by the initial question, by chat input or by the *)
(* pointer, so no later pass submits the suggestion again.                 *)
(***************************************************************************)
C13_SuggestionConsumedOnce ==
    [][ /\ active_suggestion' # None
           => /\ trigger'.kind = "suggestion"
              /\ pc' \in {"display", "run_sql", "summary", "panels",
                           "feedback", "inputs"}
        /\ (pc = "inputs" /\ active_suggestion # None)
           => /\ active_suggestion' = None
              /\ TurnInFlight'
              /\ turns' = turns + 1
              /\ messages' = Append(messages, new_user_message(active_suggestion))
        /\ turns' # turns
           => /\ turns' = turns + 1
              /\ pc = "check_empty" \/ (pc = "inputs" /\ trigger.kind = "chat")
                                     \/ (pc = "inputs" /\ active_suggestion # None)
      ]_vars

C13_Witness ==
    /\ TurnInFlight
    /\ trigger.kind = "suggestion"
    /\ active_suggestion = None
    /\ Last(messages) = new_user_message("s1")

(***************************************************************************)
(* C14: the history is append-only between two resets.  In every step that *)
(* does not run reset_session_state the old history is a prefix of the new *)
(* one, so no message is removed, reordered or changed and every message   *)
(* keeps its index; a step that runs reset_session_state empties it.       *)
(***************************************************************************)
IsPrefix(s, t) == Len(s) <= Len(t) /\ SubSeq(t, 1, Len(s)) = s

C14_HistoryAppendOnly ==
    [][ IF ResetStep THEN messages' = <<>>
                     ELSE IsPrefix(messages, messages') ]_vars

C14_Witness ==
    /\ pc = "display"
    /\ Len(messages) = 4
    /\ idx = 4
    /\ messages[1] = new_user_message(InitialQuestion)
    /\ messages[3] = new_user_message("q1")

(***************************************************************************)
(* C15: at most one request to the message endpoint is outstanding.  A     *)
(* turn issues one request and the answer ends the wait (no retry); and a  *)
(* turn begins only when the history is empty or ends with the analyst     *)
(* reply of the turn before, so no second turn begins before the first has *)
(* appended its reply.                                                     *)
(***************************************************************************)
HistoryComplete == messages = <<>> \/ Last(messages).role = "analyst"
\* handle_user_inputs is reached with input for a turn
TurnAboutToBegin ==
    /\ pc = "inputs"
    /\ trigger.kind = "chat" \/ active_suggestion # None

C15_OneOutstandingRequest ==
    [][ /\ TurnInFlight => ~TurnInFlight'
        /\ turns' # turns
           => /\ turns' = turns + 1
              /\ ~TurnInFlight
              /\ TurnInFlight'
              /\ HistoryComplete
        /\ TurnAboutToBegin' => HistoryComplete'
      ]_vars

(***************************************************************************)
(* C16: a written FeedbackRecord is immutable until a reset.  In every     *)
(* step that does not run reset_session_state each record stays in the     *)
(* feedback map with the value it has, and submit_feedback is not called   *)
(* for a request id that has a record, so a failed submission stays the    *)
(* displayed error; reset_session_state empties the map.                   *)
(***************************************************************************)
C16_FeedbackRecordImmutable ==
    [][ /\ \A rid \in DOMAIN form_submitted :
              IF ResetStep
                THEN DOMAIN form_submitted' = {}
                ELSE /\ rid \in DOMAIN form_submitted'
                     /\ form_submitted'[rid] = form_submitted[rid]
        /\ (~FeedbackInFlight /\ FeedbackInFlight')
           => request'.body.request_id \notin DOMAIN form_submitted
      ]_vars

C16_Witness ==
    /\ pc = "idle"
    /\ Len(messages) = 4
    /\ messages[2].request_id \in DOMAIN form_submitted
    /\ form_submitted[messages[2].request_id].error # NoneText
    /\ messages[2].request_id \notin widgets.forms

(***************************************************************************)
(* C17: the conversation is never displayed empty.  Whenever               *)
(* display_conversation runs (and the script is anywhere after it in the   *)
(* pass) the history is not empty and its first message is the user        *)
(* question "What questions can I ask?", which main submits whenever it    *)
(* finds the history empty.                                                *)
(***************************************************************************)
AfterCheckEmpty ==
    pc \in {"display", "run_sql", "summary", "panels", "feedback", "inputs",
            "notify", "warn"}

C17_NeverDisplayedEmpty ==
    /\ AfterCheckEmpty
       => /\ messages # <<>>
          /\ messages[1] = new_user_message(InitialQuestion)
    /\ (pc = "awaiting" /\ trigger.kind \in {"load", "clear", "model"})
       => messages = <<new_user_message(InitialQuestion)>>

C17_Witness ==
    /\ pc = "display"
    /\ turns = 2
    /\ Len(messages) = 2
    /\ messages[1] = new_user_message(InitialQuestion)

(***************************************************************************)
(* C18: roles strictly alternate.  In every state in which no request of a *)
(* turn is in flight the history has even length, the messages at the even *)
(* indices 0, 2, ... of the source (1, 3, ... here) have role "user", and  *)
(* those at the odd indices have role "analyst" and carry the request_id   *)
(* of the response that produced them.                                     *)
(***************************************************************************)
C18_RolesAlternate ==
    ~TurnInFlight
       => /\ Len(messages) % 2 = 0
          /\ \A i \in DOMAIN messages :
                IF i % 2 = 1
                  THEN messages[i].role = "user"
                  ELSE /\ messages[i].role = "analyst"
                       /\ messages[i].request_id = messages[i].api_response.request_id

(***************************************************************************)
(* C19: every key of the feedback map form_submitted is the request_id of  *)
(* an analyst message that is in the history: a record is created for a    *)
(* displayed reply only and reset_session_state clears both together.      *)
(***************************************************************************)
AnalystRequestIds ==
    { messages[i].request_id :
        i \in { j \in DOMAIN messages : messages[j].role = "analyst" } }

C19_FeedbackKeysInHistory == DOMAIN form_submitted \subseteq AnalystRequestIds

C19_Witness ==
    /\ pc = "idle"
    /\ turns = 2
    /\ Len(messages) = 2
    /\ DOMAIN form_submitted = {messages[2].request_id}
    /\ RequestIdOf(1) \in feedback_attempted

==========================================================================
